---- MODULE Spec2Model ----
(***************************************************************************)
(* IPFSStoragePlugin (web3.js plugin): upload a file to IPFS, store the    *)
(* CID in a registry contract, list the CIDs stored by an address.         *)
(*                                                                         *)
(* The repository holds two variants of the plugin class:                  *)
(*   "src"     - src/src/ipfs_storage_plugin.ts (reads a local path,       *)
(*               store(...).call(), no signer check)                       *)
(*   "part000" - src/unnamed/part_000 (passes the file through,            *)
(*               store(...).send({from: defaultAccount}), signer check)    *)
(* Every asynchronous method is cut at its awaits: one action per segment  *)
(* between two awaits, so that invocations interleave as promises do.      *)
(* uploadLocalFileToIPFS awaits the promise of storeCIDInRegistry: the     *)
(* settling of that promise and the resumption of the upload are two       *)
(* steps, and other invocations run between them.                          *)
(***************************************************************************)
EXTENDS Integers, Sequences, FiniteSets, TLC

\* ------------------------------------------------------------------ bounds
MaxCalls == 3

\* --------------------------------------------------------------- constants
Procs == {1, 2}
Variants == {"src", "part000"}
NoOpt == "<undefined>"
NoAccount == "<undefined>"
Accounts == {"0xA", "0xB"}
\* the accounts the application signs with
Signers == {"0xA"}
NoArg == "<none>"
Void == [kind |-> "void"]
NotReturned == [kind |-> "none"]
NoCid == [codec |-> "none", hash |-> "none"]

DefaultNamespace == "IPFSStorage"
RegistryABI == {"store", "CIDStored"}
REGISTRY_ADDRESS == "0xRegistry"
REGISTRY_DEPLOYMENT_BLOCK == 1

\* an options object: a field left out is NoOpt
OptionsObject(ns, abi, addr, url, auth) ==
  [passed |-> TRUE, pluginNamespace |-> ns, registryAbi |-> abi,
   registryAddress |-> addr, ipfsApiUrl |-> url, ipfsAuth |-> auth]
\* the constructor called without an argument
NoOptions ==
  [passed |-> FALSE, pluginNamespace |-> NoOpt, registryAbi |-> NoOpt,
   registryAddress |-> NoOpt, ipfsApiUrl |-> NoOpt, ipfsAuth |-> NoOpt]
\* the constructions the model enumerates: each option is given in some and
\* left out in others, pluginNamespace with each of registryAddress and
\* registryAbi in all four combinations
OptionObjects ==
  { NoOptions,
    OptionsObject(NoOpt, NoOpt, NoOpt, "localhost", NoOpt),
    OptionsObject(NoOpt, NoOpt, "0xCustomRegistry", "ipfs.infura.io", "Basic abc"),
    OptionsObject("MyPlugin", NoOpt, NoOpt, "localhost", NoOpt),
    OptionsObject("MyPlugin", NoOpt, "0xCustomRegistry", "ipfs.infura.io", NoOpt),
    OptionsObject(NoOpt, "abiWithoutStore", NoOpt, NoOpt, NoOpt),
    OptionsObject("MyPlugin", "abiWithoutStore", NoOpt, "localhost", "Basic abc") }
AbiOf(a) == IF a = "abiWithoutStore" THEN {"CIDStored"} ELSE RegistryABI

\* error messages thrown by the plugin, named by the kind they stand for
StorageUploadFailed == "Failed to upload file to IPFS."
RegistryWriteFailed == "Error storing CID in the registry."
ContractMethodMissing == "The store method is not defined in the registry contract."
NoSignerConfigured == "The signer address hasn't been set to the Web3.js Provider instance."
RegistryQueryFailed == "Failed to retrieve CIDs."
InvalidAddressError == "InvalidAddressError"

\* ------------------------------------------------------------ environment
\* local file system seen by fsPromises.readFile (variant "src")
Paths == {"/a.txt", "/b.txt", "/missing.txt"}
FileExists(path) == path \in {"/a.txt", "/b.txt"}
ReadFile(path) == IF path = "/a.txt" THEN "bytesA" ELSE "bytesB"
\* file values passed directly (variant "part000")
Contents == {"bytesA", "bytesB"}
FileInputs(v) == IF v = "src" THEN Paths ELSE Contents

\* content addressing of ipfsClient.add, and CID.toString()
CidOf(bytes) == [codec |-> "dag-pb", hash |-> bytes]
CidToString(c) == IF c.hash = "bytesA" THEN "bafyA"
                  ELSE IF c.hash = "bytesB" THEN "bafyB" ELSE "bafy?"
Cids == {CidOf(b) : b \in Contents}

\* web3 validates the address a Contract is constructed with
IsAddress(s) == s \in {REGISTRY_ADDRESS, "0xCustomRegistry", "0xA", "0xB"}

VARIABLES
  variant,          \* which source file the instance was built from
  options,          \* the options object given to the constructor
  pluginNamespace, registryAbi, registryAddress,   \* instance fields
  ipfsClient,       \* the handle ipfs-http-client's create() returned
  defaultAccount,   \* the host context's default account
  events,           \* the chain's log of CIDStored events
  blockNumber,      \* latest block
  calls,            \* invocations started so far
  pc, op, arg,      \* per invocation: position, method, argument
  from,             \* storeCIDInRegistry's local defaultAccount
  addCalls,         \* arguments ipfsClient.add was called with
  addReturned,      \* the CID add resolved with
  storeCalls,       \* arguments storeCIDInRegistry was called with
  netCalls,         \* requests issued to the registry contract
  storeReturned,    \* what send()/call() resolved with
  included,         \* the receipt of the invocation's transaction, once on chain
  requestedAt,      \* events on chain when the getPastEvents in flight was requested
  mempool,          \* transactions submitted, not included, their invocation gone
  storeSettled,     \* how the promise of storeCIDInRegistry settled
  console,          \* lines written to console.log / console.error
  result            \* how the invocation settled

plugin == <<variant, options, pluginNamespace, registryAbi, registryAddress,
            ipfsClient>>
host == <<defaultAccount, events, blockNumber>>
locals == <<pc, op, arg, from, addCalls, addReturned, storeCalls, netCalls,
            storeReturned, included, requestedAt, storeSettled, console, result>>
vars == <<plugin, host, calls, locals, mempool>>

NoResult == [status |-> "pending", value |-> Void, error |-> ""]
Resolved(v) == [status |-> "ok", value |-> v, error |-> ""]
Rejected(e) == [status |-> "error", value |-> Void, error |-> e]

\* ------------------------------------------------------------ constructor
Namespace(o) == IF o.pluginNamespace # NoOpt THEN o.pluginNamespace ELSE DefaultNamespace
Abi(o) == IF o.registryAbi # NoOpt THEN AbiOf(o.registryAbi) ELSE RegistryABI
Address(o) == IF o.pluginNamespace # NoOpt THEN o.pluginNamespace ELSE REGISTRY_ADDRESS

\* the default value of the constructor's parameter
DefaultOptions(v) ==
  IF v = "src" THEN NoOptions ELSE [NoOptions EXCEPT !.ipfsApiUrl = ""]
Defaulted(v, o) == IF o.passed THEN o ELSE DefaultOptions(v)

\* the argument ipfs-http-client's create() is called with
Create(v, o) ==
  IF v = "src"
  THEN [url |-> IF o.ipfsApiUrl \in {NoOpt, ""}
                THEN "http://localhost:5001" ELSE o.ipfsApiUrl]
  ELSE [host |-> o.ipfsApiUrl, port |-> 5001, protocol |-> "https",
        authorization |-> IF o.ipfsAuth # NoOpt THEN o.ipfsAuth ELSE ""]

Init ==
  /\ variant \in Variants
  /\ options \in OptionObjects
  /\ ipfsClient = Create(variant, Defaulted(variant, options))
  /\ pluginNamespace = Namespace(Defaulted(variant, options))
  /\ registryAbi = Abi(Defaulted(variant, options))
  /\ registryAddress = Address(Defaulted(variant, options))
  /\ defaultAccount \in {NoAccount} \cup Signers
  /\ events = << >>
  /\ blockNumber = REGISTRY_DEPLOYMENT_BLOCK
  /\ calls = 0
  /\ pc = [p \in Procs |-> "idle"]
  /\ op = [p \in Procs |-> "none"]
  /\ arg = [p \in Procs |-> NoArg]
  /\ from = [p \in Procs |-> NoAccount]
  /\ addCalls = [p \in Procs |-> << >>]
  /\ addReturned = [p \in Procs |-> NoCid]
  /\ storeCalls = [p \in Procs |-> << >>]
  /\ netCalls = [p \in Procs |-> << >>]
  /\ storeReturned = [p \in Procs |-> NotReturned]
  /\ included = [p \in Procs |-> NotReturned]
  /\ requestedAt = [p \in Procs |-> 0]
  /\ mempool = << >>
  /\ storeSettled = [p \in Procs |-> NoResult]
  /\ console = [p \in Procs |-> << >>]
  /\ result = [p \in Procs |-> NoResult]

\* ------------------------------------------------------- console and chain
Log(level, msg, detail) == [level |-> level, msg |-> msg, detail |-> detail]

Receipt(req, block) == [kind |-> "receipt", status |-> 1, block |-> block,
                        from |-> req.from, cid |-> req.arg]
\* store has no outputs: an eth_call of it decodes to nothing
CallOutput == [kind |-> "callOutput"]
\* the registry's store(cid) emits CIDStored(msg.sender, cid)
CIDStored(req, block) == [owner |-> req.from, cid |-> req.arg, block |-> block,
                          address |-> req.to]
\* mutant: the query is issued without its owner filter
GetPastEventsAnyOwner(log, address, owner, fromBlock) ==
  SelectSeq(log, LAMBDA e : e.address = address /\ e.block >= fromBlock)
\* getPastEvents("CIDStored", {filter: {owner}, fromBlock, toBlock: "latest"})
GetPastEvents(log, address, owner, fromBlock) ==
  SelectSeq(log, LAMBDA e : e.address = address /\ e.owner = owner
                            /\ e.block >= fromBlock)

\* ---------------------------------------------------- storeCIDInRegistry
\* mutant: the registry is given the raw digest instead of the CID's string form
StoreArgumentRaw(cid) == cid.hash
\* the argument of _contract.methods.store(...)
StoreArgument(cid) == CidToString(cid)

Throw(e) == [kind |-> "throw", error |-> e,
             request |-> [method |-> "", how |-> "", arg |-> "",
                          from |-> NoAccount, to |-> ""]]
Submit(how, cid, acct, addr) ==
  [kind |-> "submit", error |-> "",
   request |-> [method |-> "store", how |-> how, arg |-> StoreArgument(cid),
                from |-> acct, to |-> addr]]

\* the segment of storeCIDInRegistry before its await
StoreCIDInRegistry(v, abi, addr, acct, cid) ==
  IF ~IsAddress(addr) THEN Throw(InvalidAddressError)
  ELSE IF "store" \notin abi THEN Throw(ContractMethodMissing)
  ELSE IF v = "part000" /\ acct = NoAccount THEN Throw(NoSignerConfigured)
  ELSE IF v = "part000" THEN Submit("send", cid, acct, addr)
  ELSE Submit("call", cid, NoAccount, addr)

\* the catch block of uploadLocalFileToIPFS: whatever was thrown, by the read,
\* by add or by storeCIDInRegistry, is logged and replaced
UploadCatch(e) == StorageUploadFailed
CatchLog(o, e) ==
  IF o = "upload"
  THEN <<Log("error", "Error during file upload to IPFS:", e)>> ELSE << >>

\* what invocation p has recorded so far in seq, when its method is o: a direct
\* call of storeCIDInRegistry starts from nothing
SoFar(seq, p, o) == IF o = "upload" THEN seq[p] ELSE << >>

\* the promise of storeCIDInRegistry settles with s: a direct caller has its
\* result; an upload, which awaits that promise, resumes in a later step
StoreSettles(p, o, s) ==
  /\ storeSettled' = [storeSettled EXCEPT ![p] = s]
  /\ IF o = "upload"
     THEN /\ pc' = [pc EXCEPT ![p] = "settle"]
          /\ result' = [result EXCEPT ![p] = NoResult]
     ELSE /\ pc' = [pc EXCEPT ![p] = "done"]
          /\ result' = [result EXCEPT ![p] = s]

\* storeCIDInRegistry(cid) is entered by invocation p, whose method is o
EnterStore(p, o, cid, lines) ==
  LET out == StoreCIDInRegistry(variant, registryAbi, registryAddress,
                                defaultAccount, cid) IN
  /\ storeCalls' = [storeCalls EXCEPT ![p] = Append(SoFar(storeCalls, p, o), cid)]
  /\ console' = [console EXCEPT ![p] = SoFar(console, p, o) \o lines]
  /\ IF out.kind = "throw"
     THEN /\ StoreSettles(p, o, Rejected(out.error))
          /\ netCalls' = [netCalls EXCEPT ![p] = SoFar(netCalls, p, o)]
          /\ from' = [from EXCEPT ![p] = NoAccount]
     ELSE /\ pc' = [pc EXCEPT ![p] = "send"]
          /\ result' = [result EXCEPT ![p] = NoResult]
          /\ storeSettled' = [storeSettled EXCEPT ![p] = NoResult]
          /\ netCalls' = [netCalls EXCEPT ![p] =
                            Append(SoFar(netCalls, p, o), out.request)]
          /\ from' = [from EXCEPT ![p] = out.request.from]

\* the request storeCIDInRegistry is awaiting, or the last one it awaited
Pending(p) == netCalls[p][Len(netCalls[p])]
\* invocation p submitted a transaction the chain has not included
NotIncluded(p) ==
  /\ Len(netCalls[p]) > 0
  /\ Pending(p).method = "store"
  /\ Pending(p).how = "send"
  /\ included[p] = NotReturned

\* a new invocation of method o with argument a starts on p; a transaction the
\* invocation before it submitted in vain is still with the chain
Begin(p, o, a) ==
  /\ pc[p] \in {"idle", "done"}
  /\ calls < MaxCalls
  /\ calls' = calls + 1
  /\ mempool' = IF NotIncluded(p) THEN Append(mempool, Pending(p)) ELSE mempool
  /\ op' = [op EXCEPT ![p] = o]
  /\ arg' = [arg EXCEPT ![p] = a]
  /\ addReturned' = [addReturned EXCEPT ![p] = NoCid]
  /\ storeReturned' = [storeReturned EXCEPT ![p] = NotReturned]
  /\ included' = [included EXCEPT ![p] = NotReturned]

\* ------------------------------------------------- uploadLocalFileToIPFS
\* the call itself, up to its first await
InvokeUpload(p, file) ==
  /\ Begin(p, "upload", file)
  /\ IF variant = "src"
     THEN /\ pc' = [pc EXCEPT ![p] = "read"]
          /\ addCalls' = [addCalls EXCEPT ![p] = << >>]
     ELSE /\ pc' = [pc EXCEPT ![p] = "add"]
          /\ addCalls' = [addCalls EXCEPT ![p] = <<file>>]
  /\ storeCalls' = [storeCalls EXCEPT ![p] = << >>]
  /\ netCalls' = [netCalls EXCEPT ![p] = << >>]
  /\ from' = [from EXCEPT ![p] = NoAccount]
  /\ console' = [console EXCEPT ![p] = << >>]
  /\ result' = [result EXCEPT ![p] = NoResult]
  /\ storeSettled' = [storeSettled EXCEPT ![p] = NoResult]
  /\ requestedAt' = [requestedAt EXCEPT ![p] = 0]
  /\ UNCHANGED <<plugin, host>>

\* the catch block of uploadLocalFileToIPFS, for a failure before the store
UploadFails(p, e) ==
  /\ pc' = [pc EXCEPT ![p] = "done"]
  /\ result' = [result EXCEPT ![p] = Rejected(UploadCatch(e))]
  /\ console' = [console EXCEPT ![p] = console[p] \o CatchLog("upload", e)]
  /\ UNCHANGED <<storeCalls, netCalls, from, storeSettled>>

\* fsPromises.readFile settles (variant "src")
ReadFileDone(p) ==
  /\ pc[p] = "read"
  /\ IF FileExists(arg[p])
     THEN /\ pc' = [pc EXCEPT ![p] = "add"]
          /\ addCalls' = [addCalls EXCEPT ![p] = Append(addCalls[p], ReadFile(arg[p]))]
          /\ UNCHANGED <<result, console, storeCalls, netCalls, from, storeSettled>>
     ELSE /\ UploadFails(p, "ENOENT")
          /\ UNCHANGED addCalls
  /\ UNCHANGED <<plugin, host, mempool, calls, op, arg, addReturned, storeReturned, included, requestedAt>>

\* mutant: a failure of add is swallowed and the registry step runs anyway
AddDoneStoresAnyway(p, ok) ==
  /\ pc[p] = "add"
  /\ addReturned' = [addReturned EXCEPT ![p] =
                       IF ok THEN CidOf(addCalls[p][Len(addCalls[p])]) ELSE NoCid]
  /\ EnterStore(p, "upload", addReturned'[p], << >>)
  /\ UNCHANGED <<plugin, host, mempool, calls, op, arg, addCalls, storeReturned, included, requestedAt>>

\* ipfsClient.add settles
AddDone(p, ok) ==
  /\ pc[p] = "add"
  /\ IF ok
     THEN LET added == CidOf(addCalls[p][Len(addCalls[p])]) IN
          /\ addReturned' = [addReturned EXCEPT ![p] = added]
          /\ EnterStore(p, "upload", added,
                        <<Log("log", "Added file CID:", CidToString(added))>>)
     ELSE /\ UploadFails(p, "ipfs add failed")
          /\ UNCHANGED addReturned
  /\ UNCHANGED <<plugin, host, mempool, calls, op, arg, addCalls, storeReturned, included, requestedAt>>

\* storeCIDInRegistry called directly
InvokeStore(p, cid) ==
  /\ Begin(p, "store", cid)
  /\ EnterStore(p, "store", cid, << >>)
  /\ addCalls' = [addCalls EXCEPT ![p] = << >>]
  /\ requestedAt' = [requestedAt EXCEPT ![p] = 0]
  /\ UNCHANGED <<plugin, host>>

\* the chain includes the transaction of invocation p's send() in a new block
\* and the registry emits CIDStored: while the client awaits send(), or after
\* send() was rejected
TxIncluded(p) ==
  /\ NotIncluded(p)
  /\ pc[p] \in {"send", "settle", "done"}
  /\ pc' = [pc EXCEPT ![p] = IF pc[p] = "send" THEN "mined" ELSE pc[p]]
  /\ events' = Append(events, CIDStored(Pending(p), blockNumber + 1))
  /\ blockNumber' = blockNumber + 1
  /\ included' = [included EXCEPT ![p] = Receipt(Pending(p), blockNumber + 1)]
  /\ UNCHANGED <<plugin, defaultAccount, mempool, calls, op, arg, from, addCalls,
                 addReturned, storeCalls, netCalls, storeReturned, requestedAt,
                 storeSettled, console, result>>

\* the chain includes a transaction whose invocation is gone
TxIncludedLate(i) ==
  /\ i \in 1..Len(mempool)
  /\ events' = Append(events, CIDStored(mempool[i], blockNumber + 1))
  /\ blockNumber' = blockNumber + 1
  /\ mempool' = SubSeq(mempool, 1, i - 1) \o SubSeq(mempool, i + 1, Len(mempool))
  /\ UNCHANGED <<plugin, defaultAccount, calls, locals>>

\* the awaited store(...) resolves: a send() with the receipt of its included
\* transaction, a call(), which executed nothing on chain, with its output
SendSucceeds(p) ==
  LET req == Pending(p)
      ret == IF req.how = "send" THEN included[p] ELSE CallOutput IN
  /\ pc[p] \in {"send", "mined"}
  /\ pc[p] = IF req.how = "send" THEN "mined" ELSE "send"
  /\ storeReturned' = [storeReturned EXCEPT ![p] = ret]
  /\ console' = [console EXCEPT ![p] =
                   Append(console[p], Log("log", "Stored file CID receipt:", ret))]
  /\ StoreSettles(p, op[p], Resolved(ret))
  /\ UNCHANGED netCalls

\* mutant: a failed store is submitted a second time
SendFailsRetry(p) ==
  /\ pc[p] \in {"send", "mined"}
  /\ netCalls' = [netCalls EXCEPT ![p] = Append(netCalls[p], Pending(p))]
  /\ UNCHANGED <<pc, result, console, events, blockNumber, storeReturned, included, requestedAt,
                 storeSettled>>

\* the awaited store(...) rejects: the catch block of storeCIDInRegistry
SendFails(p) ==
  /\ console' = [console EXCEPT ![p] =
                   Append(console[p], Log("error", "Error storing CID:", "reverted"))]
  /\ pc[p] \in {"send", "mined"}
  /\ StoreSettles(p, op[p], Rejected(RegistryWriteFailed))
  /\ UNCHANGED <<storeReturned, netCalls>>

\* store(cid).send(...) / store(cid).call() settles
SendDone(p, ok) ==
  /\ IF ok THEN SendSucceeds(p) ELSE SendFails(p)
  /\ UNCHANGED <<plugin, host, mempool, calls, op, arg, from, addCalls, addReturned,
                 storeCalls, included, requestedAt>>

\* uploadLocalFileToIPFS resumes from `return await this.storeCIDInRegistry(...)`:
\* it returns the receipt, or its catch block logs and replaces the error
UploadResumes(p) ==
  /\ pc[p] = "settle"
  /\ pc' = [pc EXCEPT ![p] = "done"]
  /\ IF storeSettled[p].status = "ok"
     THEN /\ result' = [result EXCEPT ![p] = Resolved(storeSettled[p].value)]
          /\ UNCHANGED console
     ELSE /\ result' = [result EXCEPT ![p] =
                          Rejected(UploadCatch(storeSettled[p].error))]
          /\ console' = [console EXCEPT ![p] =
                           console[p] \o CatchLog("upload", storeSettled[p].error)]
  /\ UNCHANGED <<plugin, host, mempool, calls, op, arg, from, addCalls, addReturned,
                 storeCalls, netCalls, storeReturned, included, requestedAt, storeSettled>>

\* ---------------------------------------------------- listCIDsForAddress
ListArgs == [account : Accounts,
             startBlock : {REGISTRY_DEPLOYMENT_BLOCK, REGISTRY_DEPLOYMENT_BLOCK + 2}]

\* mutant: the method rebinds the instance's registry address to its argument
InvokeListRebinds(p, a) ==
  /\ Begin(p, "list", a)
  /\ pc' = [pc EXCEPT ![p] = "query"]
  /\ result' = [result EXCEPT ![p] = NoResult]
  /\ netCalls' = [netCalls EXCEPT ![p] =
        <<[method |-> "getPastEvents", how |-> "CIDStored", arg |-> a.account,
           from |-> NoAccount, to |-> a.account]>>]
  /\ addCalls' = [addCalls EXCEPT ![p] = << >>]
  /\ storeCalls' = [storeCalls EXCEPT ![p] = << >>]
  /\ from' = [from EXCEPT ![p] = NoAccount]
  /\ console' = [console EXCEPT ![p] = << >>]
  /\ storeSettled' = [storeSettled EXCEPT ![p] = NoResult]
  /\ requestedAt' = [requestedAt EXCEPT ![p] = Len(events)]
  /\ registryAddress' = a.account
  /\ UNCHANGED <<variant, options, pluginNamespace, registryAbi, ipfsClient, host>>

\* listCIDsForAddress, up to its await
InvokeList(p, a) ==
  /\ Begin(p, "list", a)
  /\ IF ~IsAddress(registryAddress)
     THEN /\ pc' = [pc EXCEPT ![p] = "done"]
          /\ result' = [result EXCEPT ![p] = Rejected(InvalidAddressError)]
          /\ netCalls' = [netCalls EXCEPT ![p] = << >>]
          /\ requestedAt' = [requestedAt EXCEPT ![p] = 0]
     ELSE /\ pc' = [pc EXCEPT ![p] = "query"]
          /\ result' = [result EXCEPT ![p] = NoResult]
          /\ netCalls' = [netCalls EXCEPT ![p] =
                <<[method |-> "getPastEvents", how |-> "CIDStored", arg |-> a.account,
                   from |-> NoAccount, to |-> registryAddress]>>]
          /\ requestedAt' = [requestedAt EXCEPT ![p] = Len(events)]
  /\ addCalls' = [addCalls EXCEPT ![p] = << >>]
  /\ storeCalls' = [storeCalls EXCEPT ![p] = << >>]
  /\ from' = [from EXCEPT ![p] = NoAccount]
  /\ console' = [console EXCEPT ![p] = << >>]
  /\ storeSettled' = [storeSettled EXCEPT ![p] = NoResult]
  /\ UNCHANGED <<plugin, host>>

\* the lines listCIDsForAddress prints for the events the query returned
ListLines(account, found) ==
  IF Len(found) = 0
  THEN <<Log("log", "No CIDs found for address", account)>>
  ELSE <<Log("log", "CIDs stored by address", account)>>
       \o [i \in 1..Len(found) |-> Log("log", found[i].cid, "")]

ListReturn(found) == Void

\* the chain as the node may see it when it evaluates the filter of p's query:
\* any moment between the request and the answer
Seen(p) == {SubSeq(events, 1, n) : n \in requestedAt[p]..Len(events)}

\* mutant: an empty result of the query is thrown as a failure
QueryDoneEmptyThrows(p, ok) ==
  /\ pc[p] = "query"
  /\ pc' = [pc EXCEPT ![p] = "done"]
  /\ requestedAt' = [requestedAt EXCEPT ![p] = 0]
  /\ \E log \in Seen(p) :
       LET found == GetPastEvents(log, registryAddress, arg[p].account,
                                  arg[p].startBlock) IN
       IF ok /\ Len(found) > 0
       THEN /\ console' = [console EXCEPT ![p] = ListLines(arg[p].account, found)]
            /\ result' = [result EXCEPT ![p] = Resolved(ListReturn(found))]
       ELSE /\ console' = [console EXCEPT ![p] =
                 <<Log("error", "Error retrieving CIDs for address:", "rpc")>>]
            /\ result' = [result EXCEPT ![p] = Rejected(RegistryQueryFailed)]
  /\ UNCHANGED <<plugin, host, mempool, calls, op, arg, from, addCalls, addReturned,
                 storeCalls, netCalls, storeReturned, included, storeSettled>>

\* getPastEvents settles
QueryDone(p, ok) ==
  /\ pc[p] = "query"
  /\ pc' = [pc EXCEPT ![p] = "done"]
  /\ requestedAt' = [requestedAt EXCEPT ![p] = 0]
  /\ IF ok
     THEN \E log \in Seen(p) :
            LET found == GetPastEvents(log, registryAddress, arg[p].account,
                                       arg[p].startBlock) IN
            /\ console' = [console EXCEPT ![p] = ListLines(arg[p].account, found)]
            /\ result' = [result EXCEPT ![p] = Resolved(ListReturn(found))]
     ELSE /\ console' = [console EXCEPT ![p] =
               <<Log("error", "Error retrieving CIDs for address:", "rpc")>>]
          /\ result' = [result EXCEPT ![p] = Rejected(RegistryQueryFailed)]
  /\ UNCHANGED <<plugin, host, mempool, calls, op, arg, from, addCalls, addReturned,
                 storeCalls, netCalls, storeReturned, included, storeSettled>>

\* ------------------------------------------------------------------- host
\* the application sets web3.eth.defaultAccount
SetDefaultAccount(a) ==
  /\ a # defaultAccount
  /\ defaultAccount' = a
  /\ UNCHANGED <<plugin, events, blockNumber, calls, locals, mempool>>

Next ==
  \/ \E p \in Procs, f \in FileInputs(variant) : InvokeUpload(p, f)
  \/ \E p \in Procs : ReadFileDone(p)
  \/ \E p \in Procs, ok \in BOOLEAN : AddDone(p, ok)
  \/ \E p \in Procs, c \in Cids : InvokeStore(p, c)
  \/ \E p \in Procs : TxIncluded(p)
  \/ \E i \in 1..MaxCalls : TxIncludedLate(i)
  \/ \E p \in Procs, ok \in BOOLEAN : SendDone(p, ok)
  \/ \E p \in Procs : UploadResumes(p)
  \/ \E p \in Procs, a \in ListArgs : InvokeList(p, a)
  \/ \E p \in Procs, ok \in BOOLEAN : QueryDone(p, ok)
  \/ \E a \in Signers \cup {NoAccount} : SetDefaultAccount(a)

Spec == Init /\ [][Next]_vars

\* ================================================================= claims
\* the bytes an upload was given: the file's contents for a path ("src"), the
\* value itself otherwise
BytesSupplied(v, file) == IF v = "src" THEN ReadFile(file) ELSE file
StoreRequests(p) == SelectSeq(netCalls[p], LAMBDA r : r.method = "store")
UploadOk(p) == op[p] = "upload" /\ result[p].status = "ok"
UploadFailed(p) == op[p] = "upload" /\ result[p].status = "error"

\* C1: whenever uploadLocalFileToIPFS has succeeded, add was called exactly once,
\* with the bytes supplied; storeCIDInRegistry was called exactly once, with the
\* CID add returned; one store(...) request went out, carrying that CID's string
\* form; and the value returned is the one the registry write returned.
C1_UploadPassesThrough ==
  \A p \in Procs : UploadOk(p) =>
    /\ addCalls[p] = <<BytesSupplied(variant, arg[p])>>
    /\ storeCalls[p] = <<addReturned[p]>>
    /\ Len(StoreRequests(p)) = 1
    /\ StoreRequests(p)[1].arg = CidToString(addReturned[p])
    /\ addReturned[p] = CidOf(BytesSupplied(variant, arg[p]))
    /\ result[p].value = storeReturned[p]
    /\ storeReturned[p] # NotReturned

\* C1 witness: an upload of the second file through send() has succeeded
C1_Witness ==
  \E p \in Procs : /\ UploadOk(p)
                    /\ result[p].value.kind = "receipt"
                    /\ result[p].value.cid = "bafyB"

\* C2: an upload whose file read or add failed (add never returned a CID) has
\* called storeCIDInRegistry zero times and sent the registry nothing, and it
\* stays so: the invocation has settled with an error.
C2_FailedUploadNeverStores ==
  \A p \in Procs : (op[p] = "upload" /\ addReturned[p] = NoCid) =>
    /\ storeCalls[p] = << >>
    /\ netCalls[p] = << >>
    /\ pc[p] \notin {"send", "mined", "settle", "query"}
    /\ pc[p] = "done" => result[p].status = "error"

\* C2 witness: add was called and failed
C2_Witness ==
  \E p \in Procs : /\ UploadFailed(p)
                    /\ addReturned[p] = NoCid
                    /\ Len(addCalls[p]) = 1

\* a step in which invocation p calls storeCIDInRegistry directly
StoreInvoked(p) == \E c \in Cids : InvokeStore(p, c)
StoreLike(p) == op[p] \in {"upload", "store"}

\* C3: a call of storeCIDInRegistry made while the host has no default account
\* (the contract binds and its ABI has store) rejects with NoSignerConfigured
\* and has sent the registry nothing.
C3_NoSignerRejectsBeforeAnyCall ==
  [][\A p \in Procs :
       (/\ StoreInvoked(p)
        /\ defaultAccount = NoAccount
        /\ "store" \in registryAbi
        /\ IsAddress(registryAddress))
       => /\ result'[p] = Rejected(NoSignerConfigured)
          /\ netCalls'[p] = << >>]_vars

\* C4: a call of storeCIDInRegistry on an instance whose registryAbi has no
\* store method rejects with ContractMethodMissing and has sent the registry
\* nothing.
C4_MissingStoreRejects ==
  [][\A p \in Procs :
       (StoreInvoked(p) /\ "store" \notin registryAbi)
       => /\ result'[p] = Rejected(ContractMethodMissing)
          /\ netCalls'[p] = << >>]_vars

\* C5: whenever storeCIDInRegistry or uploadLocalFileToIPFS has resolved, its
\* one store request was a send() from an account of the host, and the chain
\* holds a CIDStored event of that account with that CID.
C5_ReceiptMeansInclusion ==
  \A p \in Procs : (StoreLike(p) /\ result[p].status = "ok") =>
    /\ Len(StoreRequests(p)) = 1
    /\ LET req == StoreRequests(p)[1] IN
       /\ req.how = "send"
       /\ req.from \in Accounts
       /\ \E i \in 1..Len(events) :
            events[i].owner = req.from /\ events[i].cid = req.arg

\* C6: an invocation sends the registry at most one store request, and one
\* that settled after its request failed settled with an error.
C6_AtMostOneWriteAttempt ==
  \A p \in Procs :
    /\ Len(StoreRequests(p)) <= 1
    /\ (/\ StoreLike(p)
        /\ pc[p] = "done"
        /\ Len(StoreRequests(p)) = 1
        /\ storeReturned[p] = NotReturned) => result[p].status = "error"

\* C6 witness: a send() was attempted once and failed
C6_Witness ==
  \E p \in Procs : /\ op[p] = "store"
                    /\ pc[p] = "done"
                    /\ Len(StoreRequests(p)) = 1
                    /\ StoreRequests(p)[1].how = "send"
                    /\ result[p] = Rejected(RegistryWriteFailed)

\* the events on chain that a listCIDsForAddress with arguments a asks for
Matches(e, a) == /\ e.address = registryAddress
                 /\ e.owner = a.account
                 /\ e.block >= a.startBlock
MatchIdx(a) == {i \in 1..Len(events) : Matches(events[i], a)}
Rank(i, a) == Cardinality({j \in MatchIdx(a) : j <= i})
ListResolves(p) == pc[p] = "query" /\ pc'[p] = "done" /\ result'[p].status = "ok"
CidList(a) ==
  [kind |-> "list",
   items |-> [k \in 1..Cardinality(MatchIdx(a)) |->
                events[CHOOSE i \in MatchIdx(a) : Rank(i, a) = k].cid]]

\* C7 as claimed: a listCIDsForAddress whose query resolves returns the CIDs of
\* the matching events, in chain order (nothing, or an empty list, when no
\* event matches).
C7_ListReturnsCids ==
  [][\A p \in Procs : ListResolves(p) =>
       IF MatchIdx(arg[p]) = {}
       THEN result'[p].value \in {Void, CidList(arg[p])}
       ELSE result'[p].value = CidList(arg[p])]_vars

\* C7 amended: a listCIDsForAddress whose query resolves, with zero or more
\* matching events, resolves without error and returns no value. The events
\* of the answer are the matching events of the chain as it stood at some
\* moment between the request and the answer, none older than the request
\* missing: with no such event it prints the one line "No CIDs found", with
\* N of them it prints a header and then exactly those N CIDs, each as
\* emitted, the k-th line being the k-th matching event of the chain, whose
\* blocks never decrease.
C7_ListPrintsCids ==
  [][\A p \in Procs : QueryDone(p, TRUE) =>
       LET a == arg[p]
           out == console'[p] IN
       /\ result'[p] = Resolved(Void)
       /\ \E n \in requestedAt[p]..Len(events) :
            LET answered == {i \in MatchIdx(a) : i <= n} IN
            IF answered = {}
            THEN out = <<Log("log", "No CIDs found for address", a.account)>>
            ELSE /\ Len(out) = Cardinality(answered) + 1
                 /\ out[1] = Log("log", "CIDs stored by address", a.account)
                 /\ \A i \in answered : out[Rank(i, a) + 1].msg = events[i].cid
                 /\ \A i, j \in answered :
                      i <= j => events[i].block <= events[j].block]_vars

\* C7 witness: a listing has printed two CIDs
C7_Witness ==
  \E p \in Procs : /\ op[p] = "list"
                    /\ result[p].status = "ok"
                    /\ Len(console[p]) = 3
                    /\ console[p][2].msg # console[p][3].msg

\* C8: a failed uploadLocalFileToIPFS rejects with StorageUploadFailed when
\* the read or add failed, and with RegistryWriteFailed when its store request
\* was sent and failed.
C8_ErrorNamesFailingStep ==
  \A p \in Procs : UploadFailed(p) =>
    /\ addReturned[p] = NoCid => result[p].error = StorageUploadFailed
    /\ Len(StoreRequests(p)) = 1 => result[p].error = RegistryWriteFailed

\* C9: the instance's registryAddress is the registryAddress option when
\* given and REGISTRY_ADDRESS otherwise, whatever the pluginNamespace option.
C9_AddressFromItsOption ==
  registryAddress = IF options.registryAddress # NoOpt
                    THEN options.registryAddress ELSE REGISTRY_ADDRESS

\* C10: when an upload resolves while another upload of the instance is in
\* flight or has resolved, the chain holds a CIDStored event carrying the
\* resolving upload's CID and account; when the other has resolved too, the
\* two CIDs are held by two different events; and no step removes or changes
\* an event the chain had.
InFlight == {"read", "add", "send", "mined", "settle"}
StoredBy(p) ==
  {i \in 1..Len(events') : /\ events'[i].cid = CidToString(addReturned[p])
                            /\ events'[i].owner = from[p]}
C10_RacingUploadsBothStored ==
  [][/\ Len(events') >= Len(events)
     /\ SubSeq(events', 1, Len(events)) = events
     /\ \A p \in Procs :
          (/\ op[p] = "upload" /\ pc[p] = "settle"
           /\ pc'[p] = "done" /\ result'[p].status = "ok")
          => \A q \in Procs \ {p} :
               /\ (op[q] = "upload" /\ pc[q] \in InFlight) => StoredBy(p) # {}
               /\ (op[q] = "upload" /\ result[q].status = "ok")
                  => \E i \in StoredBy(p), j \in StoredBy(q) : i # j]_vars

\* C11: when the getPastEvents query of a listCIDsForAddress rejects, the
\* invocation rejects with RegistryQueryFailed; when it resolves and no event
\* matches, the invocation resolves and nothing is written to console.error.
C11_QueryFailureVsEmptyResult ==
  [][\A p \in Procs :
       /\ QueryDone(p, FALSE) => result'[p] = Rejected(RegistryQueryFailed)
       /\ (QueryDone(p, TRUE) /\ MatchIdx(arg[p]) = {})
          => /\ result'[p].status = "ok"
             /\ \A i \in 1..Len(console'[p]) : console'[p][i].level # "error"]_vars

\* C11 witness: one listing has rejected on a failed query while another has
\* resolved on an empty result
C11_Witness ==
  \E p, q \in Procs :
    /\ op[p] = "list" /\ result[p] = Rejected(RegistryQueryFailed)
    /\ op[q] = "list" /\ result[q].status = "ok"
    /\ console[q] = <<Log("log", "No CIDs found for address", arg[q].account)>>

\* the fields of the instance
InstanceFields == <<ipfsClient, registryAbi, registryAddress, pluginNamespace>>
\* what invocation p has recorded right after it was called
FreshUpload(p, f) ==
  /\ addCalls'[p] = IF variant = "src" THEN << >> ELSE <<f>>
  /\ storeCalls'[p] = << >> /\ netCalls'[p] = << >> /\ console'[p] = << >>
  /\ result'[p] = NoResult
FreshStore(p, c) ==
  /\ addCalls'[p] = << >> /\ storeCalls'[p] = <<c>> /\ console'[p] = << >>
  /\ \A i \in 1..Len(netCalls'[p]) :
       i = 1 /\ netCalls'[p][i].arg = CidToString(c)
  /\ (result'[p].status = "error") = (netCalls'[p] = << >>)
FreshList(p, a) ==
  /\ addCalls'[p] = << >> /\ storeCalls'[p] = << >> /\ console'[p] = << >>
  /\ \A i \in 1..Len(netCalls'[p]) :
       i = 1 /\ netCalls'[p][i].method = "getPastEvents"
                /\ netCalls'[p][i].arg = a.account

\* C12: no step of uploadLocalFileToIPFS, storeCIDInRegistry or
\* listCIDsForAddress, resolving or rejecting, changes the instance's
\* ipfsClient, registryAbi, registryAddress or pluginNamespace; and an
\* invocation starts from nothing: what it has called, sent and printed right
\* after the call holds nothing of the invocation that ran before it.
C12_InstanceUnchangedNoCrossCallState ==
  [][/\ InstanceFields' = InstanceFields
     /\ \A p \in Procs :
          /\ (calls' = calls + 1 /\ op'[p] = "upload" /\ InvokeUpload(p, arg'[p]))
             => FreshUpload(p, arg'[p])
          /\ (calls' = calls + 1 /\ op'[p] = "store" /\ InvokeStore(p, arg'[p]))
             => FreshStore(p, arg'[p])
          /\ (calls' = calls + 1 /\ op'[p] = "list" /\ InvokeList(p, arg'[p]))
             => FreshList(p, arg'[p])
          /\ (calls' = calls + 1 /\ op'[p] # op[p])
             => addReturned'[p] = NoCid /\ storeReturned'[p] = NotReturned]_vars

\* C12 witness: three invocations have run, one resolved and one rejected,
\* so one of them followed an earlier invocation
C12_Witness ==
  \E p, q \in Procs :
    /\ calls >= 3
    /\ result[p].status = "ok" /\ Len(netCalls[p]) = 1
    /\ result[q].status = "error"
    /\ InstanceFields = <<Create(variant, Defaulted(variant, options)),
                          Abi(options), Address(options), Namespace(options)>>
====
